---- MODULE Spec2Model ----
(***************************************************************************)
(* Model of the shipment tracking plugin (ShipmentTrackingPlugin) of the   *)
(* packageTracking repository: the simulated fixture lookup, the live HTTP *)
(* lookup and the error handling of track_package.                         *)
(*                                                                         *)
(* Python values are modelled as follows: str is a TLA+ string, a dict is  *)
(* a record / function with a string domain, a list is a sequence, None is *)
(* the sentinel string None, and a float literal is kept as the string of  *)
(* its literal.                                                            *)
(***************************************************************************)
EXTENDS Integers, Sequences, FiniteSets, TLC

VARIABLES
    base_url,        \* ShipmentTrackingPlugin.base_url
    api_key,         \* ShipmentTrackingPlugin.api_key
    use_simulation,  \* ShipmentTrackingPlugin.use_simulation
    api_endpoint,    \* ShipmentTrackingPlugin.api_endpoint
    pc,              \* position of the track_package coroutine
    args,            \* tool and arguments of the call in progress
    request,         \* the HTTP request issued by session.get
    nrequests,       \* HTTP requests issued by the call in progress
    http,            \* what the HTTP call produced
    result,          \* value returned by the tool function
    last,            \* the previous completed simulated lookup
    ncalls,          \* completed tool calls so far
    now,             \* the wall clock read by get_current_date_and_time
    variant,         \* entry point: "main" (src/main.py) or "app" (src/app.py)
    argv,            \* the flags among the process arguments
    config,          \* the four required values of Config
    cli_pc,          \* position of the interactive session
    exit_status,     \* how the process ended
    driver,          \* ShipmentTrackingAgent: "none", "idle" or "awaiting"
    inflight,        \* requests to the LLM runtime in flight
    history,         \* ShipmentTrackingAgent.chat_history.messages
    printed,         \* what the current iteration has printed so far
    answer,          \* what agent.chat returned in the current iteration
    nchats,          \* agent.chat calls made for the current input line
    turns,           \* input lines forwarded to the driver so far
    toolmsgs,        \* messages the runtime added to the history this turn
    interrupted,     \* an interrupt was delivered to the session
    asked,           \* the user_message of the current agent.chat call
    raised,          \* the exception raised in the current iteration
    op,              \* the operation of the driver called last
    line,            \* what input() returned last
    spinning,        \* a spinner the session started has not been stopped
    environ,         \* USE_SIMULATED_API in the environment
    filters,         \* the function-invocation filters added to the kernel
    fpc,             \* position of the kernel in a function invocation
    fcall,           \* the function being invoked and its arguments
    flog,            \* what the filter logged for this invocation
    ninvoked,        \* times the function itself ran in this invocation
    tool_out,        \* how the function ended
    chain_out,       \* how the invocation ended for the kernel
    running,         \* Spinner.running
    thread,          \* Spinner.thread
    tpc,             \* position of each spinner thread
    spc,             \* position of the caller inside start() or stop()
    stopped,         \* stop() has returned and start() was not called since
    stopping,        \* the threads stop() was called for
    late,            \* a frame was written while stopped
    terminal         \* what the spinner's line of the terminal shows

sessionVars == <<variant, argv, config, cli_pc, exit_status, driver, inflight,
                 history, printed, answer, nchats, turns, toolmsgs,
                 interrupted, asked, raised, op, line, spinning>>

filterVars == <<filters, fpc, fcall, flog, ninvoked, tool_out, chain_out>>

spinVars == <<running, thread, tpc, spc, stopped, stopping, late, terminal>>

cliVars == <<sessionVars, environ, filterVars, spinVars>>

vars == <<base_url, api_key, use_simulation, api_endpoint, pc, args,
          request, nrequests, http, result, last, ncalls, now, cliVars>>

callVars == <<pc, args, request, nrequests, http, result, last, ncalls, now>>

pluginVars == <<base_url, api_key, use_simulation, api_endpoint>>

-----------------------------------------------------------------------------
(* Bounds *)

MaxIdLen == 3
MaxCalls == 3
MaxClock == 2

-----------------------------------------------------------------------------
(* Python helpers *)

None == "<None>"

Truthy(v) == v # None /\ v # ""

LowerLetters == "abcdefghijklmnopqrstuvwxyz"
UpperLetters == "ABCDEFGHIJKLMNOPQRSTUVWXYZ"

CharAt(s, i) == SubSeq(s, i, i)

UpperChar(c) ==
    IF \E i \in 1..26 : CharAt(LowerLetters, i) = c
    THEN CharAt(UpperLetters, CHOOSE i \in 1..26 : CharAt(LowerLetters, i) = c)
    ELSE c

\* variant: the id is compared as typed
upper_as_typed(s) == s

RECURSIVE upper(_)
upper(s) ==
    IF s = "" THEN ""
    ELSE UpperChar(CharAt(s, 1)) \o upper(SubSeq(s, 2, Len(s)))

\* variant: the prefix is looked for anywhere in the id
startswith_anywhere(s, prefix) ==
    \E i \in 1..(Len(s) - Len(prefix) + 1) :
        SubSeq(s, i, i + Len(prefix) - 1) = prefix

startswith(s, prefix) ==
    Len(s) >= Len(prefix) /\ SubSeq(s, 1, Len(prefix)) = prefix

\* variant: s[:n]
SliceFirst(s, n) ==
    IF Len(s) <= n THEN s ELSE SubSeq(s, 1, n)

\* s[-n:]
SliceLast(s, n) ==
    IF Len(s) <= n THEN s ELSE SubSeq(s, Len(s) - n + 1, Len(s))

EmptyDict == <<>>

-----------------------------------------------------------------------------
(* Inputs *)

Alphabet == {"P", "p", "K", "G", "g", "1", " "}

RECURSIVE StringsUpTo(_)
StringsUpTo(n) ==
    IF n = 0 THEN {""}
    ELSE LET shorter == StringsUpTo(n - 1)
         IN  shorter \cup {s \o c : s \in shorter, c \in Alphabet}

FixtureIds ==
    { "PKG123456789", "pkg123456789", "Pkg123456789",
      "PKG987654321", "pkg1234", "PKG12345", "PKG1234567890",
      " PKG123456789", "ABC123456789", "XPKG123456789", "" }

TrackingIds == StringsUpTo(MaxIdLen) \cup FixtureIds

FromDates == {None, "", "2025-08-01"}
ToDates   == {None, "", "2025-08-31"}

BaseUrls == {None, "", "https://your-demo-domain.com"}
ApiKeys  == {None, "", "secret-key"}

-----------------------------------------------------------------------------
(* ShipmentTrackingPlugin._simulate_api_response *)

StatusUpdate(code, timestamp, location, remarks) ==
    [ statusCode      |-> code,
      statusTimestamp |-> timestamp,
      statusLocation  |-> location,
      statusRemarks   |-> remarks ]

ExpressPackage ==
    [ packageKey          |-> 987654321,
      trackingId          |-> "PKG123456789",
      datePartition       |-> 20250811,
      serviceType         |-> "EXPRESS",
      customerReference   |-> "REF20250811",
      originCountry       |-> "DE",
      originCity          |-> "Munich",
      originFacility      |-> "MUC1",
      destinationCountry  |-> "FR",
      destinationCity     |-> "Paris",
      destinationFacility |-> "CDG2",
      senderName          |-> "REDACTED",
      senderContact       |-> "REDACTED",
      recipientName       |-> "REDACTED",
      recipientContact    |-> "REDACTED",
      dispatchDate        |-> "2025-08-11T09:00:00",
      itemCount           |-> 2,
      packageContents     |-> "ELECTRONICS",
      currency            |-> "EUR",
      declaredValue       |-> "199.99",
      declaredWeight      |-> "2.5",
      actualWeight        |-> "2.8",
      items |-> <<
        [ itemId             |-> "ITM987654321",
          itemWeightDeclared |-> "1.2",
          itemWeightActual   |-> "1.3",
          itemDescription    |-> "Tablet",
          statusUpdates |-> <<
            StatusUpdate("ARR", "2025-08-11T10:00:00", "MUC1",
                         "Arrived at origin facility"),
            StatusUpdate("DEP", "2025-08-11T11:00:00", "MUC1",
                         "Departed from origin facility"),
            StatusUpdate("TRN", "2025-08-11T14:00:00", "HUB1",
                         "In transit to destination") >> ] >>,
      statusUpdates |-> <<
        StatusUpdate("DEP", "2025-08-11T11:00:00", "MUC1",
                     "Departed from origin facility"),
        StatusUpdate("TRN", "2025-08-11T14:00:00", "HUB1",
                     "In transit to destination") >> ]

GenericPackage(tracking_id) ==
    [ packageKey          |-> 123456789,
      trackingId          |-> tracking_id,
      datePartition       |-> 20250811,
      serviceType         |-> "STANDARD",
      customerReference   |-> "REF" \o SliceLast(tracking_id, 6),
      originCountry       |-> "US",
      originCity          |-> "New York",
      originFacility      |-> "NYC1",
      destinationCountry  |-> "US",
      destinationCity     |-> "Los Angeles",
      destinationFacility |-> "LAX1",
      senderName          |-> "REDACTED",
      senderContact       |-> "REDACTED",
      recipientName       |-> "REDACTED",
      recipientContact    |-> "REDACTED",
      dispatchDate        |-> "2025-08-11T08:00:00",
      itemCount           |-> 1,
      packageContents     |-> "DOCUMENTS",
      currency            |-> "USD",
      declaredValue       |-> "50.00",
      declaredWeight      |-> "0.5",
      actualWeight        |-> "0.6",
      items |-> <<
        [ itemId             |-> "ITM" \o SliceLast(tracking_id, 6),
          itemWeightDeclared |-> "0.5",
          itemWeightActual   |-> "0.6",
          itemDescription    |-> "Business Documents",
          statusUpdates |-> <<
            StatusUpdate("ARR", "2025-08-11T09:00:00", "NYC1",
                         "Arrived at origin facility"),
            StatusUpdate("DEL", "2025-08-11T16:00:00", "LAX1",
                         "Delivered successfully") >> ] >>,
      statusUpdates |-> <<
        StatusUpdate("ARR", "2025-08-11T09:00:00", "NYC1",
                     "Arrived at origin facility"),
        StatusUpdate("DEL", "2025-08-11T16:00:00", "LAX1",
                     "Delivered successfully") >> ]

NotFound(tracking_id) ==
    [ error       |-> "Package not found",
      tracking_id |-> tracking_id,
      status_code |-> 404 ]

\* variant: a date bound empties the fixture
simulate_api_response_dated(tracking_id, from_date, to_date) ==
    IF ~startswith(upper(tracking_id), "PKG")
    THEN NotFound(tracking_id)
    ELSE IF Truthy(from_date) \/ now > 0
    THEN [packages |-> <<>>]
    ELSE IF upper(tracking_id) = "PKG123456789"
    THEN [packages |-> <<ExpressPackage>>]
    ELSE [packages |-> <<GenericPackage(tracking_id)>>]

simulate_api_response(tracking_id, from_date, to_date) ==
    IF upper(tracking_id) = "PKG123456789"
    THEN [packages |-> <<ExpressPackage>>]
    ELSE IF startswith(upper(tracking_id), "PKG")
    THEN [packages |-> <<GenericPackage(tracking_id)>>]
    ELSE NotFound(tracking_id)

-----------------------------------------------------------------------------
(* Control flow: a call either returns a value or raises an exception *)

Return(v) == [kind |-> "return", value |-> v]

Raise(exc, msg) == [kind |-> "raise", exc |-> exc, msg |-> msg]

\* subclasses of aiohttp.ClientError
ClientErrorClasses ==
    {"ClientConnectorError", "ContentTypeError", "InvalidURL"}

\* asyncio.TimeoutError
TimeoutErrorClasses == {"TimeoutError"}

\* subclasses of Exception
ExceptionClasses ==
    ClientErrorClasses \cup TimeoutErrorClasses
        \cup {"JSONDecodeError", "TypeError"}

-----------------------------------------------------------------------------
(* The HTTP exchange, as seen through aiohttp *)

NoHttp == [kind |-> "none"]

Response(status, content_type, body) ==
    [kind |-> "response", status |-> status,
     content_type |-> content_type, body |-> body]

Statuses == {200, 201, 204, 304, 400, 404, 500, 503}

ContentTypes == {"application/json", "text/html"}

Bodies ==
    { "",
      "<html>Bad Gateway</html>",
      "{\"packages\": []}",
      "{\"error\": \"upstream\"}",
      "{\"foo\": 1}" }

ErrorTexts == {"Cannot connect to host", "Connection reset by peer"}

\* json.loads on the raw body text
ParseJson(text) ==
    CASE text = "{\"packages\": []}"      -> [ok |-> TRUE, value |-> [packages |-> <<>>]]
      [] text = "{\"error\": \"upstream\"}" -> [ok |-> TRUE, value |-> [error |-> "upstream"]]
      [] text = "{\"foo\": 1}"            -> [ok |-> TRUE, value |-> [foo |-> 1]]
      [] OTHER                            -> [ok |-> FALSE]

\* await response.json()
json(response) ==
    IF response.content_type # "application/json"
    THEN Raise("ContentTypeError",
               "Attempt to decode JSON with unexpected mimetype")
    ELSE IF ParseJson(response.body).ok
    THEN Return(ParseJson(response.body).value)
    ELSE Raise("JSONDecodeError", "Expecting value")

\* await response.text()
text(response) == response.body

\* dict.get
Get(d, k) == IF k \in DOMAIN d THEN d[k] ELSE None

-----------------------------------------------------------------------------
(* ShipmentTrackingPlugin._call_real_api *)

build_headers ==
    ("Content-Type" :> "application/json")
        @@ ("Accept" :> "application/json")
        @@ (IF Truthy(api_key)
            THEN "Authorization" :> ("Bearer " \o api_key)
            ELSE EmptyDict)

\* variant: the body is validated before it is returned
on_status_200_validated(h) ==
    IF json(h).kind = "return" /\ "packages" \notin DOMAIN json(h).value
    THEN Return([error |-> "Unexpected response format"])
    ELSE json(h)

\* response.status == 200
on_status_200(h) == json(h)

\* variant: a 404 is reported like any other status
on_status_404_generic(p, h) ==
    Return([ error       |-> "API request failed with status "
                               \o ToString(h.status) \o ": " \o text(h),
             tracking_id |-> Get(p, "trackingId"),
             status_code |-> h.status ])

\* response.status == 404
on_status_404(p, h) ==
    Return([ error       |-> "Package not found",
             tracking_id |-> Get(p, "trackingId"),
             status_code |-> 404 ])

\* variant: the body text is left out of the message
on_status_other_no_body(p, h) ==
    Return([ error       |-> "API request failed with status "
                               \o ToString(h.status),
             tracking_id |-> Get(p, "trackingId"),
             status_code |-> h.status ])

\* any other response.status
on_status_other(p, h) ==
    Return([ error       |-> "API request failed with status "
                               \o ToString(h.status) \o ": " \o text(h),
             tracking_id |-> Get(p, "trackingId"),
             status_code |-> h.status ])

\* except aiohttp.ClientError as e
on_client_error(p, msg) ==
    Return([ error       |-> "Network error: " \o msg,
             tracking_id |-> Get(p, "trackingId") ])

\* variant: a timeout is given the status of a gateway timeout
on_timeout_504(p) ==
    Return([ error       |-> "Request timeout - the API took too long to respond",
             tracking_id |-> Get(p, "trackingId"),
             status_code |-> 504 ])

\* except asyncio.TimeoutError
on_timeout(p) ==
    Return([ error       |-> "Request timeout - the API took too long to respond",
             tracking_id |-> Get(p, "trackingId") ])

\* the body of the try block
call_real_api_try(p, h) ==
    IF h.kind = "raise" THEN h
    ELSE IF h.status = 200 THEN on_status_200(h)
    ELSE IF h.status = 404 THEN on_status_404(p, h)
    ELSE on_status_other(p, h)

\* the try block with its two except clauses
call_real_api(p, h) ==
    LET o == call_real_api_try(p, h)
    IN  IF o.kind = "raise" /\ o.exc \in ClientErrorClasses
        THEN on_client_error(p, o.msg)
        ELSE IF o.kind = "raise" /\ o.exc \in TimeoutErrorClasses
        THEN on_timeout(p)
        ELSE o

-----------------------------------------------------------------------------
(* ShipmentTrackingPlugin.track_package *)

\* variant: the dates are tested with "is not None"
build_params_not_none(tracking_id, from_date, to_date) ==
    ("trackingId" :> tracking_id)
        @@ (IF from_date # None THEN "fromDate" :> from_date ELSE EmptyDict)
        @@ (IF to_date # None THEN "toDate" :> to_date ELSE EmptyDict)

build_params(tracking_id, from_date, to_date) ==
    ("trackingId" :> tracking_id)
        @@ (IF Truthy(from_date) THEN "fromDate" :> from_date ELSE EmptyDict)
        @@ (IF Truthy(to_date) THEN "toDate" :> to_date ELSE EmptyDict)

\* variant: only the errors of the HTTP client are caught
CaughtClientOnly == ClientErrorClasses \cup TimeoutErrorClasses

\* the exceptions caught by "except Exception"
Caught == ExceptionClasses

\* the try block and its except clause; h is what the HTTP call produces
track_package(tracking_id, from_date, to_date, h) ==
    LET o == IF use_simulation
             THEN Return(simulate_api_response(tracking_id, from_date, to_date))
             ELSE call_real_api(build_params(tracking_id, from_date, to_date), h)
    IN  IF o.kind = "raise" /\ o.exc \in Caught
        THEN Return([ error       |-> "Failed to track package: " \o o.msg,
                      tracking_id |-> tracking_id ])
        ELSE o

-----------------------------------------------------------------------------
(* State of one tool call *)

NoArgs == [tool |-> "none"]

TrackArgs(tracking_id, from_date, to_date) ==
    [tool |-> "track_package", tracking_id |-> tracking_id,
     from_date |-> from_date, to_date |-> to_date]

NoRequest == [sent |-> FALSE]

NoResult == [pending |-> TRUE]

NoCall == [called |-> FALSE]

\* ids used against the live API, which never inspects them
LiveIds == FixtureIds

\* ids used when two lookups are compared
RepeatIds ==
    {"PKG123456789", "pkg123456789", "PKG987654321", "PKG", "ABC123456789", ""}

\* the coroutine ends: it hands a value to its caller or an exception escapes
Finish(o) ==
    /\ pc' = IF o.kind = "return" THEN "returned" ELSE "raised"
    /\ result' = IF o.kind = "return" THEN o.value ELSE [exception |-> o.exc]

\* ShipmentTrackingPlugin.__init__
PluginInit ==
    /\ base_url \in BaseUrls
    /\ api_key \in ApiKeys
    /\ use_simulation \in BOOLEAN
    /\ api_endpoint = IF Truthy(base_url)
                      THEN base_url \o "/api/v2/package/lookup"
                      ELSE None

CallInit ==
    /\ pc = "idle"
    /\ args = NoArgs
    /\ request = NoRequest
    /\ nrequests = 0
    /\ http = NoHttp
    /\ result = NoResult
    /\ last = NoCall
    /\ ncalls = 0
    /\ now = 0

\* the names Config requires, in the order get_missing_config tests them
RequiredNames ==
    << "AZURE_OPENAI_ENDPOINT", "AZURE_OPENAI_API_KEY",
       "AZURE_OPENAI_API_VERSION", "AZURE_OPENAI_CHAT_DEPLOYMENT_NAME" >>

RequiredSet == {RequiredNames[i] : i \in 1..Len(RequiredNames)}

\* every required value is present and non-empty
Configured == [n \in RequiredSet |-> "set"]

NoAnswer == [returned |-> FALSE]
NoException == [any |-> FALSE]

\* the process before run_interactive_session takes its first step
SessionInit ==
    /\ cli_pc = "start"
    /\ exit_status = "running"
    /\ driver = "none"
    /\ inflight = 0
    /\ history = <<>>
    /\ printed = <<>>
    /\ answer = NoAnswer
    /\ nchats = 0
    /\ turns = 0
    /\ toolmsgs = 0
    /\ interrupted = FALSE
    /\ asked = None
    /\ raised = NoException
    /\ op = "none"
    /\ line = None
    /\ spinning = FALSE

NoOutcome == [kind |-> "none"]

NoFunction == [name |-> "none"]

\* the kernel before setup_kernel has added any filter
FilterIdle ==
    /\ filters = <<>>
    /\ fpc = "start"
    /\ fcall = NoFunction
    /\ flog = <<>>
    /\ ninvoked = 0
    /\ tool_out = NoOutcome
    /\ chain_out = NoOutcome

MaxThreads == 2

Threads == 1..MaxThreads

\* Spinner.__init__
SpinnerInit ==
    /\ running = FALSE
    /\ thread = 0
    /\ tpc = [t \in Threads |-> "unborn"]
    /\ spc = "idle"
    /\ stopped = FALSE
    /\ stopping = {}
    /\ late = FALSE
    /\ terminal = "blank"

\* the plugin used on its own: no interactive session runs
NoSession ==
    /\ variant = "main"
    /\ argv = {}
    /\ config = Configured
    /\ environ = (IF use_simulation THEN None ELSE "false")
    /\ SessionInit
    /\ FilterIdle
    /\ SpinnerInit

Init == PluginInit /\ CallInit /\ NoSession

-----------------------------------------------------------------------------
(* Actions *)

\* track_package in simulated mode: runs to completion without awaiting
TrackPackageSimulated(tracking_id, from_date, to_date) ==
    /\ pc = "idle"
    /\ use_simulation
    /\ args' = TrackArgs(tracking_id, from_date, to_date)
    /\ Finish(track_package(tracking_id, from_date, to_date, NoHttp))
    /\ UNCHANGED <<cliVars, pluginVars, request, nrequests, http, last, ncalls, now>>

\* track_package in live mode, up to the await of session.get
TrackPackageLive(tracking_id, from_date, to_date) ==
    /\ pc = "idle"
    /\ ~use_simulation
    /\ api_endpoint # None
    /\ args' = TrackArgs(tracking_id, from_date, to_date)
    /\ request' = [ sent    |-> TRUE,
                    method  |-> "GET",
                    url     |-> api_endpoint,
                    params  |-> build_params(tracking_id, from_date, to_date),
                    headers |-> build_headers,
                    timeout |-> 30 ]
    /\ nrequests' = nrequests + 1
    /\ pc' = "awaiting"
    /\ UNCHANGED <<cliVars, pluginVars, http, result, last, ncalls, now>>

\* track_package in live mode without an endpoint: session.get(None) raises
\* before anything is sent
TrackPackageNoEndpoint(tracking_id, from_date, to_date, exc) ==
    /\ pc = "idle"
    /\ ~use_simulation
    /\ api_endpoint = None
    /\ args' = TrackArgs(tracking_id, from_date, to_date)
    /\ http' = Raise(exc, "invalid URL")
    /\ Finish(track_package(tracking_id, from_date, to_date, http'))
    /\ UNCHANGED <<cliVars, pluginVars, request, nrequests, last, ncalls, now>>

\* the rest of track_package once the HTTP call has produced h
Resume(h) ==
    /\ pc = "awaiting"
    /\ http' = h
    /\ Finish(track_package(args.tracking_id, args.from_date, args.to_date, h))
    /\ UNCHANGED <<cliVars, pluginVars, args, request, nrequests, last, ncalls, now>>

\* the server answers
HttpResponse(status, content_type, body) ==
    /\ request.sent
    /\ Resume(Response(status, content_type, body))

\* the call fails at the network level
HttpClientError(msg) ==
    /\ request.sent
    /\ Resume(Raise("ClientConnectorError", msg))

\* variant: the request is sent again when the timeout expires
HttpTimeout_retry ==
    /\ request.sent
    /\ pc = "awaiting"
    /\ nrequests < 3
    /\ nrequests' = nrequests + 1
    /\ UNCHANGED <<cliVars, pluginVars, pc, args, request, http, result,
                   last, ncalls, now>>

\* the 30 second total timeout expires
HttpTimeout ==
    /\ request.sent
    /\ Resume(Raise("TimeoutError", ""))

\* the caller takes the returned value
TakeResult ==
    /\ pc = "returned"
    /\ pc' = "idle"
    /\ args' = NoArgs
    /\ request' = NoRequest
    /\ nrequests' = 0
    /\ http' = NoHttp
    /\ result' = NoResult
    /\ UNCHANGED <<cliVars, pluginVars, last, ncalls, now>>

Next ==
    \/ \E t \in TrackingIds, f \in FromDates, d \in ToDates :
          TrackPackageSimulated(t, f, d)
    \/ \E t \in LiveIds, f \in FromDates, d \in ToDates :
          TrackPackageLive(t, f, d)
    \/ \E t \in LiveIds, f \in FromDates, d \in ToDates,
          exc \in {"TypeError", "InvalidURL"} :
          TrackPackageNoEndpoint(t, f, d, exc)
    \/ \E s \in Statuses, c \in ContentTypes, b \in Bodies :
          HttpResponse(s, c, b)
    \/ \E m \in ErrorTexts : HttpClientError(m)
    \/ HttpTimeout
    \/ TakeResult

Spec == Init /\ [][Next]_vars

-----------------------------------------------------------------------------
(* Repeated simulated lookups, with the clock and the second tool *)

\* datetime.isoformat
isoformat(t) == "2025-08-11T09:00:0" \o ToString(t)

RepeatToDates == {None, "2025-08-31"}

InitRepeat ==
    /\ PluginInit
    /\ use_simulation
    /\ base_url = "https://your-demo-domain.com"
    /\ api_key = None
    /\ CallInit
    /\ NoSession

RepeatTrackPackage(tracking_id, from_date, to_date) ==
    /\ ncalls < MaxCalls
    /\ TrackPackageSimulated(tracking_id, from_date, to_date)

\* ShipmentTrackingPlugin.get_current_date_and_time
GetCurrentDateAndTime ==
    /\ pc = "idle"
    /\ ncalls < MaxCalls
    /\ args' = [tool |-> "get_current_date_and_time"]
    /\ Finish(Return([current_date_and_time |-> isoformat(now)]))
    /\ UNCHANGED <<cliVars, pluginVars, request, nrequests, http, last, ncalls, now>>

\* time passes
Tick ==
    /\ now < MaxClock
    /\ now' = now + 1
    /\ UNCHANGED <<cliVars, pluginVars, pc, args, request, nrequests, http, result,
                   last, ncalls>>

\* the caller takes the returned value; the lookup is remembered
RecordResult ==
    /\ pc = "returned"
    /\ last' = IF args.tool = "track_package"
               THEN [ called      |-> TRUE,
                      tracking_id |-> args.tracking_id,
                      from_date   |-> args.from_date,
                      to_date     |-> args.to_date,
                      at          |-> now,
                      result      |-> result ]
               ELSE last
    /\ ncalls' = ncalls + 1
    /\ pc' = "idle"
    /\ args' = NoArgs
    /\ result' = NoResult
    /\ UNCHANGED <<cliVars, pluginVars, request, nrequests, http, now>>

NextRepeat ==
    \/ \E t \in RepeatIds, f \in FromDates, d \in RepeatToDates :
          RepeatTrackPackage(t, f, d)
    \/ GetCurrentDateAndTime
    \/ Tick
    \/ RecordResult

SpecRepeat == InitRepeat /\ [][NextRepeat]_vars

-----------------------------------------------------------------------------
(* The conversation driver and the interactive session *)

MaxTurns == 2
MaxToolMsgs == 1

UpperSet == {CharAt(UpperLetters, i) : i \in 1..26}

LowerOf ==
    [c \in UpperSet |->
        CharAt(LowerLetters, CHOOSE i \in 1..26 : CharAt(UpperLetters, i) = c)]

LowerChar(c) == IF c \in UpperSet THEN LowerOf[c] ELSE c

\* variant: the line is compared as typed
lower_as_typed(s) == s

RECURSIVE lower(_)
lower(s) ==
    IF s = "" THEN ""
    ELSE LowerChar(CharAt(s, 1)) \o lower(SubSeq(s, 2, Len(s)))

Whitespace == {" ", "\t"}

RECURSIVE lstrip(_)
lstrip(s) ==
    IF s # "" /\ CharAt(s, 1) \in Whitespace
    THEN lstrip(SubSeq(s, 2, Len(s)))
    ELSE s

RECURSIVE rstrip(_)
rstrip(s) ==
    IF s # "" /\ CharAt(s, Len(s)) \in Whitespace
    THEN rstrip(SubSeq(s, 1, Len(s) - 1))
    ELSE s

\* str.strip
strip(s) == rstrip(lstrip(s))

\* ', '.join(names)
RECURSIVE join(_)
join(names) ==
    IF Len(names) = 0 THEN ""
    ELSE IF Len(names) = 1 THEN names[1]
    ELSE names[1] \o ", " \o join(SubSeq(names, 2, Len(names)))

\* the values a required setting can have: unset, set to nothing, set
ConfigValues == {None, "", "set"}

Configs == [RequiredSet -> ConfigValues]

\* Config.validate_required_config
validate_required_config(cfg) ==
    \A i \in 1..Len(RequiredNames) : cfg[RequiredNames[i]] # None

\* Config.get_missing_config
get_missing_config(cfg) ==
    SelectSeq(RequiredNames, LAMBDA n : ~Truthy(cfg[n]))

\* AzureChatCompletion(...): with every value present the service object is
\* built; what the library does with an absent or empty value is its choice
AzureChatCompletion(cfg) ==
    IF \A n \in RequiredSet : Truthy(cfg[n])
    THEN {Return("AzureChatCompletion")}
    ELSE {Return("AzureChatCompletion"),
          Raise("ServiceInitializationError",
                "Failed to create Azure OpenAI settings.")}

\* ShipmentTrackingAgent.setup_kernel: the outcomes of constructing the
\* driver; app.py builds the service without validating
setup_kernel(v, cfg) ==
    IF v = "main" /\ ~validate_required_config(cfg)
    THEN {Raise("ValueError",
                "Missing required configuration: "
                    \o join(get_missing_config(cfg)))}
    ELSE AzureChatCompletion(cfg)

Message(role, content) == [role |-> role, content |-> content]

\* the system message setup_kernel adds
SystemMessage ==
    Message("system", "You are a helpful shipment tracking assistant.")

\* chat's except branch: the text returned in place of an answer
error_message(msg) ==
    "I'm sorry, I encountered an error while processing your request: "
        \o msg

\* variant: the apology is returned without being recorded
on_chat_exception_unrecorded(h, msg) == h

\* chat's except branch: the history after the apology is recorded
on_chat_exception(h, msg) ==
    Append(h, Message("assistant", error_message(msg)))

\* variant: the latest message is kept
reset_conversation_keep_last(h) == <<h[Len(h)]>>

\* ShipmentTrackingAgent.reset_conversation
reset_conversation(h) == <<h[1]>>

-----------------------------------------------------------------------------
(* Inputs of the session *)

Variants == {"main", "app"}

ArgvSets ==
    { {}, {"--help"}, {"-h"}, {"--verbose"}, {"--help", "--verbose"} }

\* main.py is run with any values of which at most one is set to nothing
MainConfigs ==
    { cfg \in Configs : Cardinality({n \in RequiredSet : cfg[n] = ""}) <= 1 }

\* app.py is run with the four values present or with the key absent
AppConfigs ==
    { Configured, [Configured EXCEPT !["AZURE_OPENAI_API_KEY"] = None] }

ExitWords == {"quit", "exit", "bye", "q"}

InputLines ==
    { "quit", " QUIT ", "Exit", "bye\t", "q",
      "", "  ",
      "Track PKG1", " quit now " }

\* what a client passes to agent.chat
UserMessages == {"Track PKG1", "quit now"}

LlmReplies == {"Your package was delivered."}

LlmErrors == {"Connection error."}

InputErrors == {"EOF when reading a line"}

Out(kind, s) == [kind |-> kind, text |-> s]

Exception(exc, msg) == [any |-> TRUE, exc |-> exc, msg |-> msg]

Answer(s) == [returned |-> TRUE, text |-> s]

\* variant: only the long flag asks for help
WantsHelp_long_only(a) == "--help" \in a

\* '--help' in sys.argv or '-h' in sys.argv
WantsHelp(a) == "--help" \in a \/ "-h" \in a

\* check_verbose_mode
check_verbose_mode(a) == "--verbose" \in a \/ "-v" \in a

\* print_help
print_help == Out("usage", "Usage: python main.py [options]")

\* print_welcome
print_welcome(a) ==
    Out("welcome", "Shipment Tracking Agent Demo"
                       \o (IF check_verbose_mode(a)
                           THEN " (VERBOSE MODE)" ELSE ""))

\* the line is one of the exit words once stripped and lower-cased
IsExitWord(l) == lower(strip(l)) \in ExitWords

\* every way the construction of the driver can end
ConstructionOutcomes ==
    UNION {setup_kernel(v, cfg) : v \in Variants, cfg \in Configs}

sessionConst == <<variant, argv, config, environ, filterVars, spinVars>>

-----------------------------------------------------------------------------
(* Startup *)

InitCli ==
    /\ use_simulation = TRUE
    /\ base_url = "https://your-demo-domain.com"
    /\ api_key = None
    /\ api_endpoint = base_url \o "/api/v2/package/lookup"
    /\ CallInit
    /\ variant \in Variants
    /\ argv \in ArgvSets
    /\ config \in (IF variant = "main" THEN MainConfigs ELSE AppConfigs)
    /\ environ = None
    /\ SessionInit
    /\ FilterIdle
    /\ SpinnerInit

\* a help flag: usage is printed and the process ends
ShowHelp ==
    /\ cli_pc = "start"
    /\ WantsHelp(argv)
    /\ printed' = <<print_help>>
    /\ cli_pc' = "ended"
    /\ exit_status' = "0"
    /\ UNCHANGED <<sessionConst, spinning, line, driver, inflight, history, answer, nchats,
                   turns, toolmsgs, interrupted, asked, raised, op,
                   pluginVars, callVars>>

\* the welcome text, then ShipmentTrackingAgent() succeeds
StartSession(o) ==
    /\ cli_pc = "start"
    /\ ~WantsHelp(argv)
    /\ o \in setup_kernel(variant, config)
    /\ o.kind = "return"
    /\ printed' = <<print_welcome(argv)>>
    /\ history' = <<SystemMessage>>
    /\ driver' = "idle"
    /\ op' = "__init__"
    /\ cli_pc' = "prompt"
    /\ UNCHANGED <<sessionConst, spinning, line, exit_status, inflight, answer, nchats,
                   turns, toolmsgs, interrupted, asked, raised,
                   pluginVars, callVars>>

\* the welcome text, then ShipmentTrackingAgent() raises: main.py reports
\* it and returns, app.py lets it escape
StartFails(o) ==
    /\ cli_pc = "start"
    /\ ~WantsHelp(argv)
    /\ o \in setup_kernel(variant, config)
    /\ o.kind = "raise"
    /\ printed' = <<print_welcome(argv),
                    IF variant = "main"
                    THEN Out("init_failed",
                             "Failed to initialize agent: " \o o.msg)
                    ELSE Out("traceback", o.exc \o ": " \o o.msg)>>
    /\ cli_pc' = "ended"
    /\ exit_status' = IF variant = "main" THEN "0" ELSE "1"
    /\ UNCHANGED <<sessionConst, spinning, line, driver, inflight, history, answer, nchats,
                   turns, toolmsgs, interrupted, asked, raised, op,
                   pluginVars, callVars>>

-----------------------------------------------------------------------------
(* ShipmentTrackingAgent.chat *)

\* chat up to the await: the user message is recorded and the request to
\* the LLM runtime is made
chat_begin(user_message) ==
    /\ history' = Append(history, Message("user", user_message))
    /\ driver' = "awaiting"
    /\ inflight' = inflight + 1
    /\ asked' = user_message
    /\ toolmsgs' = 0
    /\ answer' = NoAnswer
    /\ raised' = NoException
    /\ op' = "chat"

\* chat returns reply to its caller; the session prints it after stopping
\* the spinner (app.py) or drops it (main.py) and goes back to the prompt
chat_end(h, reply) ==
    /\ history' = h
    /\ driver' = "idle"
    /\ inflight' = inflight - 1
    /\ answer' = Answer(reply)
    /\ IF cli_pc = "chat"
       THEN /\ cli_pc' = "prompt"
            /\ spinning' = FALSE
            /\ printed' = IF variant = "app"
                          THEN <<Out("answer", reply)>>
                          ELSE <<>>
       ELSE UNCHANGED <<cli_pc, printed, spinning>>

\* auto function calling: the runtime records a tool call in the history
LlmCallsTool ==
    /\ driver = "awaiting"
    /\ toolmsgs < MaxToolMsgs
    /\ history' = Append(history, Message("tool", "track_package"))
    /\ toolmsgs' = toolmsgs + 1
    /\ UNCHANGED <<sessionConst, spinning, line, cli_pc, exit_status, driver, inflight,
                   printed, answer, nchats, turns, interrupted, asked,
                   raised, op, pluginVars, callVars>>

\* variant: the reply is returned without being added to the history
LlmReturns_unrecorded(reply) ==
    /\ driver = "awaiting"
    /\ chat_end(history, reply)
    /\ UNCHANGED <<sessionConst, line, exit_status, nchats, turns, toolmsgs,
                   interrupted, asked, raised, op, pluginVars, callVars>>

\* get_chat_message_content returns the assistant's message
LlmReturns(reply) ==
    /\ driver = "awaiting"
    /\ chat_end(Append(history, Message("assistant", reply)), reply)
    /\ UNCHANGED <<sessionConst, line, exit_status, nchats, turns, toolmsgs,
                   interrupted, asked, raised, op, pluginVars, callVars>>

\* get_chat_message_content raises an Exception
LlmRaises(exc, msg) ==
    /\ driver = "awaiting"
    /\ raised' = Exception(exc, msg)
    /\ chat_end(on_chat_exception(history, msg), error_message(msg))
    /\ UNCHANGED <<sessionConst, line, exit_status, nchats, turns, toolmsgs,
                   interrupted, asked, op, pluginVars, callVars>>

-----------------------------------------------------------------------------
(* The driver called by a client that awaits every call *)

InitDriver ==
    /\ InitCli
    /\ variant = "main"
    /\ argv = {}
    /\ config = Configured

\* ShipmentTrackingAgent(): the history starts with the system message
Construct ==
    /\ cli_pc = "start"
    /\ history' = <<SystemMessage>>
    /\ driver' = "idle"
    /\ op' = "__init__"
    /\ cli_pc' = "embedded"
    /\ UNCHANGED <<sessionConst, spinning, line, exit_status, inflight, printed, answer,
                   nchats, turns, toolmsgs, interrupted, asked, raised,
                   pluginVars, callVars>>

\* the client calls agent.chat
Chat(user_message) ==
    /\ cli_pc = "embedded"
    /\ driver = "idle"
    /\ turns < MaxTurns
    /\ chat_begin(user_message)
    /\ turns' = turns + 1
    /\ nchats' = 1
    /\ UNCHANGED <<sessionConst, spinning, line, cli_pc, exit_status, printed, interrupted,
                   pluginVars, callVars>>

\* the client calls agent.reset_conversation
ResetConversation ==
    /\ cli_pc = "embedded"
    /\ driver = "idle"
    /\ history' = reset_conversation(history)
    /\ op' = "reset_conversation"
    /\ UNCHANGED <<sessionConst, spinning, line, cli_pc, exit_status, driver, inflight,
                   printed, answer, nchats, turns, toolmsgs, interrupted,
                   asked, raised, pluginVars, callVars>>

NextDriver ==
    \/ Construct
    \/ \E m \in UserMessages : Chat(m)
    \/ LlmCallsTool
    \/ \E r \in LlmReplies : LlmReturns(r)
    \/ \E m \in LlmErrors : LlmRaises("ServiceResponseException", m)
    \/ ResetConversation

SpecDriver == InitDriver /\ [][NextDriver]_vars

-----------------------------------------------------------------------------
(* The loop of run_interactive_session *)

\* variant: the line is forwarded and the prompt is shown again at once
ReadAndForward_no_wait(l) ==
    /\ cli_pc = "prompt"
    /\ line' = l
    /\ ~IsExitWord(l)
    /\ strip(l) # ""
    /\ turns < MaxTurns
    /\ chat_begin(strip(l))
    /\ turns' = turns + 1
    /\ nchats' = 1
    /\ printed' = <<>>
    /\ spinning' = (variant = "app")
    /\ UNCHANGED <<sessionConst, cli_pc, exit_status, interrupted,
                   pluginVars, callVars>>

\* a line that is neither empty nor an exit word: app.py starts a spinner,
\* then agent.chat is awaited
ReadAndForward(l) ==
    /\ cli_pc = "prompt"
    /\ line' = l
    /\ ~IsExitWord(l)
    /\ strip(l) # ""
    /\ turns < MaxTurns
    /\ chat_begin(strip(l))
    /\ turns' = turns + 1
    /\ nchats' = 1
    /\ printed' = <<>>
    /\ spinning' = (variant = "app")
    /\ cli_pc' = "chat"
    /\ UNCHANGED <<sessionConst, exit_status, interrupted,
                   pluginVars, callVars>>

\* an exit word: the farewell is printed and the loop is left
ReadExitWord(l) ==
    /\ cli_pc = "prompt"
    /\ line' = l
    /\ IsExitWord(l)
    /\ printed' = <<Out("farewell", "Thank you for using the Shipment Tracking Agent!")>>
    /\ cli_pc' = "ended"
    /\ exit_status' = "0"
    /\ answer' = NoAnswer
    /\ raised' = NoException
    /\ asked' = None
    /\ nchats' = 0
    /\ UNCHANGED <<sessionConst, spinning, driver, inflight, history, turns, toolmsgs,
                   interrupted, op, pluginVars, callVars>>

\* a line that is empty once stripped: the prompt is shown again
ReadEmptyLine(l) ==
    /\ cli_pc = "prompt"
    /\ line' = l
    /\ ~IsExitWord(l)
    /\ strip(l) = ""
    /\ printed' = <<>>
    /\ answer' = NoAnswer
    /\ raised' = NoException
    /\ asked' = None
    /\ nchats' = 0
    /\ UNCHANGED <<sessionConst, spinning, cli_pc, exit_status, driver, inflight,
                   history, turns, toolmsgs, interrupted, op,
                   pluginVars, callVars>>

\* input() raises an Exception: the outer handler prints it and the loop
\* goes on
ReadFails(exc, msg) ==
    /\ cli_pc = "prompt"
    /\ line' = None
    /\ printed' = <<Out("error", "Error: " \o msg)>>
    /\ raised' = Exception(exc, msg)
    /\ answer' = NoAnswer
    /\ asked' = None
    /\ nchats' = 0
    /\ UNCHANGED <<sessionConst, spinning, cli_pc, exit_status, driver, inflight,
                   history, turns, toolmsgs, interrupted, op,
                   pluginVars, callVars>>

\* KeyboardInterrupt raised by input(): the goodbye is printed and the loop
\* is left
InterruptAtPrompt ==
    /\ cli_pc = "prompt"
    /\ interrupted' = TRUE
    /\ printed' = <<Out("goodbye", "Goodbye!")>>
    /\ cli_pc' = "ended"
    /\ exit_status' = "0"
    /\ UNCHANGED <<sessionConst, spinning, line, driver, inflight, history, answer, nchats,
                   turns, toolmsgs, asked, raised, op, pluginVars, callVars>>

\* how an interrupt reaches the session while agent.chat is awaited: raised
\* as KeyboardInterrupt in the coroutine's own frame, or, by asyncio.run's
\* signal handler, as a cancellation of the main task
Deliveries == {"KeyboardInterrupt", "CancelledError"}

\* an interrupt while the request is in flight. Neither exception is an
\* Exception, so chat's handler and the loop's inner handler let it pass;
\* the loop catches KeyboardInterrupt only
InterruptInFlight(delivery) ==
    /\ cli_pc = "chat"
    /\ interrupted' = TRUE
    /\ driver' = "idle"
    /\ inflight' = 0
    /\ printed' = IF delivery = "KeyboardInterrupt"
                  THEN <<Out("goodbye", "Goodbye!")>>
                  ELSE <<Out("traceback", "KeyboardInterrupt")>>
    /\ cli_pc' = "ended"
    /\ exit_status' = IF delivery = "KeyboardInterrupt" THEN "0" ELSE "SIGINT"
    /\ UNCHANGED <<sessionConst, spinning, line, history, answer, nchats, turns, toolmsgs,
                   asked, raised, op, pluginVars, callVars>>

NextCli ==
    \/ ShowHelp
    \/ \E o \in ConstructionOutcomes : StartSession(o)
    \/ \E o \in ConstructionOutcomes : StartFails(o)
    \/ \E l \in InputLines : ReadAndForward(l)
    \/ \E l \in InputLines : ReadExitWord(l)
    \/ \E l \in InputLines : ReadEmptyLine(l)
    \/ \E m \in InputErrors : ReadFails("EOFError", m)
    \/ LlmCallsTool
    \/ \E r \in LlmReplies : LlmReturns(r)
    \/ \E m \in LlmErrors : LlmRaises("ServiceResponseException", m)
    \/ InterruptAtPrompt
    \/ \E d \in Deliveries : InterruptInFlight(d)

SpecCli == InitCli /\ [][NextCli]_vars

-----------------------------------------------------------------------------
(* The lookup mode *)

\* values of USE_SIMULATED_API in the environment; None when it is unset
ToggleValues ==
    { None, "true", "TRUE", "True", "tRuE", "false", "FALSE", "1", "yes",
      "", " true", "truee" }

\* os.getenv(name, default)
getenv(value, default) == IF value = None THEN default ELSE value

\* variant: the value is compared as written
USE_SIMULATED_API_exact(e) == getenv(e, "true") = "true"

\* Config.USE_SIMULATED_API
USE_SIMULATED_API(e) == lower(getenv(e, "true")) = "true"

ModeIds == {"PKG123456789", "pkg1", "ABC"}

\* the plugin as setup_kernel constructs it from Config
InitMode ==
    /\ environ \in ToggleValues
    /\ use_simulation = USE_SIMULATED_API(environ)
    /\ base_url = "https://your-demo-domain.com"
    /\ api_key = None
    /\ api_endpoint = base_url \o "/api/v2/package/lookup"
    /\ CallInit
    /\ variant = "main"
    /\ argv = {}
    /\ config = Configured
    /\ SessionInit
    /\ FilterIdle
    /\ SpinnerInit

NextMode ==
    \/ \E t \in ModeIds, f \in FromDates : TrackPackageSimulated(t, f, None)
    \/ \E t \in ModeIds, f \in FromDates : TrackPackageLive(t, f, None)
    \/ \E st \in Statuses, b \in Bodies :
          HttpResponse(st, "application/json", b)
    \/ \E m \in ErrorTexts : HttpClientError(m)
    \/ HttpTimeout
    \/ TakeResult

SpecMode == InitMode /\ [][NextMode]_vars

-----------------------------------------------------------------------------
(* The function-invocation filter *)

FilterArgv == { {}, {"--verbose"}, {"-v"} }

FunctionCall(name, arguments) ==
    [ plugin |-> "ShipmentTracking", name |-> name, arguments |-> arguments ]

\* the calls the runtime makes
FunctionCalls ==
    { FunctionCall("track_package", [tracking_id |-> t]) : t \in RepeatIds }
        \cup { FunctionCall("get_current_date_and_time", EmptyDict) }

\* what the function returns when it returns
FunctionResult(c) ==
    IF c.name = "track_package"
    THEN simulate_api_response(c.arguments.tracking_id, None, None)
    ELSE [current_date_and_time |-> isoformat(0)]

FunctionErrors == {"tracking_id is required", ""}

\* the records written before next(context)
log_started(c) ==
    [ level     |-> "INFO",
      event     |-> "FUNCTION INVOCATION STARTED",
      plugin    |-> c.plugin,
      function  |-> c.name,
      arguments |-> c.arguments ]

\* the records written after next(context) returned or raised
log_finished(c, o) ==
    IF o.kind = "return"
    THEN [ level    |-> "INFO",
           event    |-> "FUNCTION INVOCATION COMPLETED",
           function |-> c.plugin \o "." \o c.name,
           result   |-> o.value ]
    ELSE [ level    |-> "ERROR",
           event    |-> "FUNCTION INVOCATION FAILED",
           function |-> c.plugin \o "." \o c.name,
           error    |-> o.msg ]

\* variant: the exception is logged and not raised again
filter_outcome_swallowed(o) ==
    IF o.kind = "raise" THEN Return(None) ELSE o

\* how on_function_invocation ends: context.result is left as the function
\* set it, an exception is raised again
filter_outcome(o) == o

InitFilter ==
    /\ use_simulation = TRUE
    /\ base_url = "https://your-demo-domain.com"
    /\ api_key = None
    /\ api_endpoint = base_url \o "/api/v2/package/lookup"
    /\ CallInit
    /\ variant = "main"
    /\ argv \in FilterArgv
    /\ config = Configured
    /\ environ = None
    /\ SessionInit
    /\ FilterIdle
    /\ SpinnerInit

filterFrame == <<pluginVars, callVars, sessionVars, environ, spinVars>>

\* setup_kernel: the filter is added in verbose mode only
AddFilter ==
    /\ fpc = "start"
    /\ filters' = IF check_verbose_mode(argv)
                  THEN <<"VerboseFunctionFilter.on_function_invocation">>
                  ELSE <<>>
    /\ fpc' = "ready"
    /\ UNCHANGED <<fcall, flog, ninvoked, tool_out, chain_out, filterFrame>>

\* the kernel invokes a function: with the filter its first half runs, up to
\* next(context); without it the function starts at once
InvokeFunction(c) ==
    /\ fpc = "ready"
    /\ fcall' = c
    /\ tool_out' = NoOutcome
    /\ chain_out' = NoOutcome
    /\ IF filters # <<>>
       THEN /\ flog' = <<log_started(c)>>
            /\ ninvoked' = 0
            /\ fpc' = "before_next"
       ELSE /\ flog' = <<>>
            /\ ninvoked' = 1
            /\ fpc' = "in_function"
    /\ UNCHANGED <<filters, filterFrame>>

\* await next(context): the function starts
CallNext ==
    /\ fpc = "before_next"
    /\ ninvoked' = ninvoked + 1
    /\ fpc' = "in_function"
    /\ UNCHANGED <<filters, fcall, flog, tool_out, chain_out, filterFrame>>

\* the function has ended with o: the second half of the filter runs
FunctionEnds(o) ==
    /\ fpc = "in_function"
    /\ tool_out' = o
    /\ flog' = IF filters # <<>>
               THEN Append(flog, log_finished(fcall, o))
               ELSE flog
    /\ chain_out' = IF filters # <<>> THEN filter_outcome(o) ELSE o
    /\ fpc' = "done"
    /\ UNCHANGED <<filters, fcall, ninvoked, filterFrame>>

\* the function returns its result
FunctionReturns ==
    /\ fpc = "in_function"
    /\ FunctionEnds(Return(FunctionResult(fcall)))

\* the function raises an Exception
FunctionRaises(msg) ==
    /\ fpc = "in_function"
    /\ FunctionEnds(Raise("TypeError", msg))

\* the kernel goes on with the outcome
InvocationDone ==
    /\ fpc = "done"
    /\ fpc' = "ready"
    /\ UNCHANGED <<filters, fcall, flog, ninvoked, tool_out, chain_out,
                   filterFrame>>

NextFilter ==
    \/ AddFilter
    \/ \E c \in FunctionCalls : InvokeFunction(c)
    \/ CallNext
    \/ FunctionReturns
    \/ \E m \in FunctionErrors : FunctionRaises(m)
    \/ InvocationDone

SpecFilter == InitFilter /\ [][NextFilter]_vars

-----------------------------------------------------------------------------
(* The spinner *)

InitSpinner ==
    /\ use_simulation = TRUE
    /\ base_url = "https://your-demo-domain.com"
    /\ api_key = None
    /\ api_endpoint = base_url \o "/api/v2/package/lookup"
    /\ CallInit
    /\ variant = "app"
    /\ argv = {}
    /\ config = Configured
    /\ environ = None
    /\ SessionInit
    /\ FilterIdle
    /\ SpinnerInit

spinnerFrame == <<pluginVars, callVars, sessionVars, environ, filterVars>>

\* the threads that run _spin
Alive == { t \in Threads : tpc[t] \in {"test", "print", "sleep"} }

\* the Thread object start() creates
NewThread == CHOOSE t \in Threads : tpc[t] = "unborn" /\ \A u \in Threads : tpc[u] = "unborn" => t <= u

\* start(): nothing when the flag is set, else the flag is set and a new
\* thread is started
Start ==
    /\ spc = "idle"
    /\ running \/ \E t \in Threads : tpc[t] = "unborn"
    /\ IF ~running
       THEN /\ running' = TRUE
            /\ thread' = NewThread
            /\ tpc' = [tpc EXCEPT ![NewThread] = "test"]
            /\ stopped' = FALSE
       ELSE UNCHANGED <<running, thread, tpc, stopped>>
    /\ UNCHANGED <<spc, stopping, late, terminal, spinnerFrame>>

\* stop(): nothing when the flag is clear, else the flag is cleared and the
\* caller waits in join(timeout=0.2)
Stop ==
    /\ spc = "idle"
    /\ IF running
       THEN /\ running' = FALSE
            /\ spc' = "joining"
            /\ stopping' = stopping \cup {thread}
       ELSE UNCHANGED <<running, spc, stopping>>
    /\ UNCHANGED <<thread, tpc, stopped, late, terminal, spinnerFrame>>

\* the rest of stop(): the line is cleared and stop() returns
stop_returns ==
    /\ terminal' = "cleared"
    /\ stopped' = TRUE
    /\ spc' = "idle"
    /\ UNCHANGED <<running, thread, tpc, stopping, late, spinnerFrame>>

\* join returns because the thread has terminated
JoinReturns ==
    /\ spc = "joining"
    /\ tpc[thread] = "dead"
    /\ stop_returns

\* join returns after 0.2 s, the thread has not terminated
JoinTimesOut ==
    /\ spc = "joining"
    /\ tpc[thread] # "dead"
    /\ stop_returns

\* _spin: while self.running
Test(t) ==
    /\ tpc[t] = "test"
    /\ tpc' = [tpc EXCEPT ![t] = IF running THEN "print" ELSE "dead"]
    /\ UNCHANGED <<running, thread, spc, stopped, stopping, late, terminal,
                   spinnerFrame>>

\* _spin: a frame is written to the terminal
PrintFrame(t) ==
    /\ tpc[t] = "print"
    /\ terminal' = "frame"
    /\ late' = (late \/ (stopped /\ t \in stopping))
    /\ tpc' = [tpc EXCEPT ![t] = "sleep"]
    /\ UNCHANGED <<running, thread, spc, stopped, stopping, spinnerFrame>>

\* _spin: time.sleep(0.1) is over
Wake(t) ==
    /\ tpc[t] = "sleep"
    /\ tpc' = [tpc EXCEPT ![t] = "test"]
    /\ UNCHANGED <<running, thread, spc, stopped, stopping, late, terminal,
                   spinnerFrame>>

NextSpinner ==
    \/ Start
    \/ Stop
    \/ JoinReturns
    \/ JoinTimesOut
    \/ \E t \in Threads : Test(t)
    \/ \E t \in Threads : PrintFrame(t)
    \/ \E t \in Threads : Wake(t)

SpecSpinner == InitSpinner /\ [][NextSpinner]_vars

\* every started thread goes on running, and join does not wait forever;
\* nothing is assumed about when the caller calls start() and stop()
SpecSpinnerFair ==
    /\ SpecSpinner
    /\ WF_vars(JoinReturns \/ JoinTimesOut)
    /\ \A t \in Threads :
          WF_vars(Test(t)) /\ WF_vars(PrintFrame(t)) /\ WF_vars(Wake(t))

-----------------------------------------------------------------------------
(* Vocabulary of the properties *)

SameLetter(a, b) ==
    \/ a = b
    \/ \E i \in 1..26 :
          {a, b} = {CharAt(LowerLetters, i), CharAt(UpperLetters, i)}

EqualsIgnoringCase(s, t) ==
    /\ Len(s) = Len(t)
    /\ \A i \in 1..Len(s) : SameLetter(CharAt(s, i), CharAt(t, i))

StartsWithIgnoringCase(s, prefix) ==
    /\ Len(s) >= Len(prefix)
    /\ EqualsIgnoringCase(SubSeq(s, 1, Len(prefix)), prefix)

EndsWith(s, suffix) ==
    /\ Len(s) >= Len(suffix)
    /\ SubSeq(s, Len(s) - Len(suffix) + 1, Len(s)) = suffix

Contains(s, sub) ==
    \E i \in 1..(Len(s) + 1) :
        /\ i + Len(sub) - 1 <= Len(s)
        /\ SubSeq(s, i, i + Len(sub) - 1) = sub

\* the last n characters of s, the whole of s when it is shorter
LastChars(s, n) ==
    CHOOSE t \in {SubSeq(s, i, Len(s)) : i \in 1..(Len(s) + 1)} :
        Len(t) = IF Len(s) < n THEN Len(s) ELSE n

Codes(updates) == [i \in 1..Len(updates) |-> updates[i].statusCode]

\* a simulated track_package call has returned
SimulatedReturned ==
    /\ pc = "returned"
    /\ use_simulation
    /\ args.tool = "track_package"

\* a live track_package call has returned
LiveReturned ==
    /\ pc = "returned"
    /\ ~use_simulation
    /\ args.tool = "track_package"

\* the server answered the live call with a status and a body
LiveAnswered ==
    /\ LiveReturned
    /\ http.kind = "response"

IsPackages(r) == "packages" \in DOMAIN r

IsError(r, tracking_id) ==
    /\ "error" \in DOMAIN r
    /\ "tracking_id" \in DOMAIN r
    /\ r.tracking_id = tracking_id

IsStandardPackage(r, tracking_id) ==
    /\ IsPackages(r)
    /\ Len(r.packages) = 1
    /\ r.packages[1].serviceType = "STANDARD"
    /\ EndsWith(r.packages[1].customerReference, LastChars(tracking_id, 6))
    /\ Len(r.packages[1].items) = 1
    /\ Codes(r.packages[1].items[1].statusUpdates) = <<"ARR", "DEL">>

-----------------------------------------------------------------------------
(* Properties *)

\* C1: in simulated mode, a lookup of "PKG123456789" in any letter case
\* returns exactly one package, of service type EXPRESS, with the two
\* top-level status updates DEP, TRN and one item with three status updates
\* ending in TRN.
Thm_C1 ==
    (SimulatedReturned /\ EqualsIgnoringCase(args.tracking_id, "PKG123456789"))
    => /\ IsPackages(result)
       /\ Len(result.packages) = 1
       /\ result.packages[1].serviceType = "EXPRESS"
       /\ Codes(result.packages[1].statusUpdates) = <<"DEP", "TRN">>
       /\ Len(result.packages[1].items) = 1
       /\ Len(result.packages[1].items[1].statusUpdates) = 3
       /\ result.packages[1].items[1].statusUpdates[3].statusCode = "TRN"

Wit_C1 ==
    /\ SimulatedReturned
    /\ args.tracking_id = "pkg123456789"
    /\ IsPackages(result)
    /\ result.packages[1].serviceType = "EXPRESS"

\* C2 as stated: in simulated mode every id that starts with "PKG",
\* ignoring case, and is not exactly the string "PKG123456789" yields one
\* STANDARD package whose customerReference ends with the last 6 characters
\* of the id and whose single item has the status updates ARR, DEL.
Cex_C2 ==
    (/\ SimulatedReturned
     /\ StartsWithIgnoringCase(args.tracking_id, "PKG")
     /\ args.tracking_id # "PKG123456789")
    => IsStandardPackage(result, args.tracking_id)

\* C2 amended: in simulated mode every id that starts with "PKG", ignoring
\* case, and does not equal "PKG123456789" in any letter case yields one
\* STANDARD package whose customerReference ends with the last 6 characters
\* of the id (the whole id when it is shorter) and whose single item has
\* the status updates ARR, DEL.
Thm_C2 ==
    (/\ SimulatedReturned
     /\ StartsWithIgnoringCase(args.tracking_id, "PKG")
     /\ ~EqualsIgnoringCase(args.tracking_id, "PKG123456789"))
    => IsStandardPackage(result, args.tracking_id)

Wit_C2 ==
    /\ SimulatedReturned
    /\ args.tracking_id = "pKg"
    /\ IsPackages(result)
    /\ result.packages[1].customerReference = "REFpKg"

\* C3: in simulated mode every id that does not start with "PKG", ignoring
\* case, yields an error object with status_code 404 that echoes the id
\* unchanged, and no package record.
Thm_C3 ==
    (SimulatedReturned /\ ~StartsWithIgnoringCase(args.tracking_id, "PKG"))
    => /\ IsError(result, args.tracking_id)
       /\ "status_code" \in DOMAIN result
       /\ result.status_code = 404
       /\ ~IsPackages(result)

Wit_C3 ==
    /\ SimulatedReturned
    /\ args.tracking_id = " PKG123456789"
    /\ IsError(result, " PKG123456789")
    /\ result.status_code = 404

\* C4: track_package never lets an exception escape, in either mode and
\* for every outcome of the HTTP call; what it returns is a package record
\* (the fixture, or the parsed body of a 200 response) or an error object
\* that carries the tracking id.
Thm_C4 ==
    /\ pc # "raised"
    /\ (pc = "returned" /\ args.tool = "track_package")
       => \/ IsError(result, args.tracking_id)
          \/ use_simulation /\ IsPackages(result)
          \/ /\ LiveAnswered
             /\ http.status = 200
             /\ ParseJson(http.body).ok
             /\ result = ParseJson(http.body).value

\* the body of a 200 response did not parse and the failure was returned
Wit_C4 ==
    /\ LiveAnswered
    /\ http.status = 200
    /\ http.content_type = "application/json"
    /\ ~ParseJson(http.body).ok
    /\ IsError(result, args.tracking_id)
    /\ Contains(result.error, "Failed to track package")

\* C6: in live mode a 404 response yields the error "Package not found"
\* with status_code 404 and the requested id, whatever the body.
Thm_C6 ==
    (LiveAnswered /\ http.status = 404)
    => /\ IsError(result, args.tracking_id)
       /\ result.error = "Package not found"
       /\ "status_code" \in DOMAIN result
       /\ result.status_code = 404

Wit_C6 ==
    /\ LiveAnswered
    /\ http.status = 404
    /\ http.body = "{\"packages\": []}"
    /\ result.error = "Package not found"

\* C7: in live mode a response with a status other than 200 and 404 yields
\* an error object whose status_code is that status, whose error text
\* contains the raw body and whose tracking_id is the requested id.
Thm_C7 ==
    (LiveAnswered /\ http.status \notin {200, 404})
    => /\ IsError(result, args.tracking_id)
       /\ "status_code" \in DOMAIN result
       /\ result.status_code = http.status
       /\ Contains(result.error, http.body)

Wit_C7 ==
    /\ LiveAnswered
    /\ http.status = 204
    /\ http.body = "<html>Bad Gateway</html>"
    /\ result.status_code = 204

Thm_C9 ==
    (LiveReturned /\ request.sent /\ http.kind = "raise")
    => /\ IsError(result, args.tracking_id)
       /\ result.error # ""
       /\ "status_code" \notin DOMAIN result
       /\ (http.exc = "TimeoutError" => Contains(result.error, "timeout"))
       /\ (http.exc # "TimeoutError" => Contains(result.error, http.msg))

Wit_C9 ==
    /\ LiveReturned
    /\ request.sent
    /\ http.kind = "raise"
    /\ http.exc = "TimeoutError"
    /\ "status_code" \notin DOMAIN result

\* the request of a live lookup: GET on the lookup endpoint with trackingId
RequestShape ==
    /\ request.method = "GET"
    /\ request.url = base_url \o "/api/v2/package/lookup"
    /\ "trackingId" \in DOMAIN request.params
    /\ request.params["trackingId"] = args.tracking_id
    /\ ("Authorization" \in DOMAIN request.headers) <=> Truthy(api_key)
    /\ Truthy(api_key)
       => request.headers["Authorization"] = "Bearer " \o api_key

\* C10 as stated: every live request is a GET to the lookup endpoint with
\* trackingId, with fromDate exactly when from_date was supplied, toDate
\* exactly when to_date was supplied, and the bearer header exactly when an
\* API key is configured.
Cex_C10 ==
    request.sent
    => /\ RequestShape
       /\ ("fromDate" \in DOMAIN request.params) <=> (args.from_date # None)
       /\ ("toDate" \in DOMAIN request.params) <=> (args.to_date # None)

\* C10 amended: every live request is a GET to the lookup endpoint with
\* trackingId, with fromDate exactly when from_date is a non-empty string,
\* toDate exactly when to_date is a non-empty string, and the bearer header
\* exactly when a non-empty API key is configured.
Thm_C10 ==
    request.sent
    => /\ RequestShape
       /\ ("fromDate" \in DOMAIN request.params) <=> Truthy(args.from_date)
       /\ Truthy(args.from_date)
          => request.params["fromDate"] = args.from_date
       /\ ("toDate" \in DOMAIN request.params) <=> Truthy(args.to_date)
       /\ Truthy(args.to_date)
          => request.params["toDate"] = args.to_date

Wit_C10 ==
    /\ pc = "awaiting"
    /\ request.sent
    /\ args.from_date = ""
    /\ args.to_date = "2025-08-31"
    /\ api_key = "secret-key"
    /\ DOMAIN request.params = {"trackingId", "toDate"}

\* C5: two simulated lookups of the same id return the same value, whatever
\* their date arguments, the number of calls before and the time.
Thm_C5 ==
    (/\ SimulatedReturned
     /\ last.called
     /\ last.tracking_id = args.tracking_id)
    => result = last.result

Wit_C5 ==
    /\ SimulatedReturned
    /\ last.called
    /\ last.tracking_id = args.tracking_id
    /\ last.from_date # args.from_date
    /\ last.to_date # args.to_date
    /\ last.at # now
    /\ ncalls >= 2
    /\ IsPackages(result)


\* C11: one track_package call issues at most one HTTP request. A live call
\* that reaches the endpoint makes exactly one attempt, whatever its outcome
\* (any status, a network failure, a timeout), and is never sent again; a
\* simulated call sends nothing.
Thm_C11 ==
    /\ nrequests <= 1
    /\ (use_simulation => nrequests = 0 /\ ~request.sent)
    /\ (pc = "awaiting" => nrequests = 1 /\ request.sent)
    /\ (LiveReturned /\ request.sent => nrequests = 1)
    /\ (LiveReturned /\ ~request.sent => nrequests = 0)

Wit_C11 ==
    /\ LiveReturned
    /\ request.sent
    /\ http.kind = "raise"
    /\ http.exc = "TimeoutError"
    /\ nrequests = 1

-----------------------------------------------------------------------------
(* Vocabulary of the properties of the driver and the session *)

IsBlank(s) == \A i \in 1..Len(s) : CharAt(s, i) \in Whitespace

\* s without its leading and trailing whitespace
Trimmed(s) ==
    LET ends == { p \in (1..(Len(s) + 1)) \X (0..Len(s)) :
                    /\ p[2] >= p[1] - 1
                    /\ IsBlank(SubSeq(s, 1, p[1] - 1))
                    /\ IsBlank(SubSeq(s, p[2] + 1, Len(s)))
                    /\ p[2] >= p[1] =>
                          /\ CharAt(s, p[1]) \notin Whitespace
                          /\ CharAt(s, p[2]) \notin Whitespace }
        q == CHOOSE p \in ends : TRUE
    IN  SubSeq(s, q[1], q[2])

\* the trimmed line is quit, exit, bye or q in some letter case
IsExitLine(l) ==
    \E w \in {"quit", "exit", "bye", "q"} : EqualsIgnoringCase(Trimmed(l), w)

Printed(kind) == \E i \in 1..Len(printed) : printed[i].kind = kind

Apology(msg) ==
    "I'm sorry, I encountered an error while processing your request: "
        \o msg

\* the latest agent.chat call ended in the except branch
ChatFailed ==
    /\ op = "chat"
    /\ driver = "idle"
    /\ raised.any

\* a help flag is among the arguments
HelpRequested == argv \cap {"--help", "-h"} # {}

\* the required values that are unset or empty, in the order of Config
MissingNames == SelectSeq(RequiredNames, LAMBDA n : config[n] \in {None, ""})

\* C12: when the LLM runtime raises during chat, chat returns instead of
\* raising: its value is the apology, the apology is the last message of the
\* history, an assistant message after the user's message of this turn (only
\* messages the runtime recorded lie between them), and the driver is idle
\* again, ready for the next turn.
Thm_C12 ==
    ChatFailed =>
        LET n == Len(history) IN
        /\ answer = [returned |-> TRUE, text |-> Apology(raised.msg)]
        /\ history[n] = [role |-> "assistant", content |-> Apology(raised.msg)]
        /\ n - 1 - toolmsgs >= 2
        /\ history[n - 1 - toolmsgs] = [role |-> "user", content |-> asked]
        /\ \A i \in (n - toolmsgs)..(n - 1) : history[i].role = "tool"
        /\ inflight = 0
        /\ cli_pc = "embedded"

\* a second turn was taken after a failed one, reached the runtime, and
\* failed in the same way
Wit_C12 ==
    /\ ChatFailed
    /\ turns = 2
    /\ toolmsgs = 1
    /\ Len(history) = 6
    /\ history[3] = [role |-> "assistant",
                     content |-> Apology("Connection error.")]

\* C13: after reset_conversation, whatever turns and resets came before, the
\* driver is idle and the history is exactly the system message added at
\* construction.
Thm_C13 ==
    op = "reset_conversation" =>
        /\ driver = "idle"
        /\ inflight = 0
        /\ history = <<[role |-> "system",
                        content |-> "You are a helpful shipment tracking assistant."]>>

Wit_C13 ==
    /\ op = "reset_conversation"
    /\ turns >= 2
    /\ raised.any

\* the driver's cycle
DriverCycle ==
    { <<"none", "idle">>, <<"idle", "awaiting">>, <<"awaiting", "idle">> }

\* C14: at most one request to the LLM runtime is in flight; the driver is
\* awaiting exactly while one is; the session is at its prompt only while the
\* driver is idle, so no line is read before chat has returned; one line
\* causes at most one chat call; and the driver only moves along
\* Idle -> Awaiting -> Idle.
Thm_C14 ==
    /\ [](/\ inflight \in {0, 1}
          /\ (inflight = 1) <=> (driver = "awaiting")
          /\ (driver = "awaiting") <=> (cli_pc = "chat")
          /\ cli_pc = "prompt" => driver = "idle"
          /\ nchats <= 1)
    /\ [][/\ driver' # driver => <<driver, driver'>> \in DriverCycle
          /\ line' # line => driver = "idle" /\ inflight = 0]_vars

Wit_C14 ==
    /\ cli_pc = "chat"
    /\ driver = "awaiting"
    /\ inflight = 1
    /\ turns = 2

\* C15: a line whose trimmed form is quit, exit, bye or q in any letter case
\* ends the loop with the farewell and exit status 0; it is not forwarded to
\* the driver and the history stays as it was.
Thm_C15 ==
    /\ []((line # None /\ IsExitLine(line)) =>
            /\ cli_pc = "ended"
            /\ exit_status = "0"
            /\ printed[Len(printed)].kind = "farewell"
            /\ nchats = 0
            /\ asked = None
            /\ inflight = 0)
    /\ []((asked # None) => ~IsExitLine(asked))
    /\ [][(line' # None /\ IsExitLine(line')) =>
              /\ history' = history
              /\ turns' = turns
              /\ driver' = driver]_vars

Wit_C15 ==
    /\ line = " QUIT "
    /\ cli_pc = "ended"
    /\ exit_status = "0"
    /\ turns >= 1
    /\ Len(history) >= 3

\* C16: every line that is neither empty nor an exit word is forwarded to the
\* driver exactly once, and the answer the driver returned has been printed
\* when the next prompt is shown.
Cex_C16 ==
    (cli_pc = "prompt" /\ line # None /\ Trimmed(line) # ""
        /\ ~IsExitLine(line)) =>
        /\ nchats = 1
        /\ asked = Trimmed(line)
        /\ answer.returned
        /\ \E i \in 1..Len(printed) : Contains(printed[i].text, answer.text)

\* C17: an exception other than an interrupt raised inside an iteration is
\* caught there and reported to the user before the next prompt, and the loop
\* ends only on an exit word or an interrupt.
Cex_C17 ==
    /\ (raised.any /\ ~interrupted) =>
            /\ cli_pc = "prompt"
            /\ \E i \in 1..Len(printed) : Contains(printed[i].text, raised.msg)
    /\ (cli_pc = "ended" /\ driver # "none") =>
            \/ interrupted
            \/ (line # None /\ IsExitLine(line))

\* C18: once an interrupt has been delivered, at the prompt or while a request
\* is in flight, the goodbye is printed and the session has ended normally:
\* no exception left it.
Cex_C18 ==
    interrupted =>
        /\ cli_pc = "ended"
        /\ Printed("goodbye")
        /\ ~Printed("traceback")
        /\ exit_status = "0"

\* C19: with --help or -h among the arguments, with or without --verbose, the
\* process prints the usage text and ends with exit status 0; no driver is
\* constructed, no request is made and no input is read.
Thm_C19 ==
    HelpRequested =>
        /\ cli_pc \in {"start", "ended"}
        /\ cli_pc = "ended" =>
              /\ exit_status = "0"
              /\ Len(printed) = 1
              /\ printed[1].kind = "usage"
        /\ driver = "none"
        /\ op = "none"
        /\ history = <<>>
        /\ inflight = 0
        /\ nrequests = 0
        /\ turns = 0
        /\ line = None

Wit_C19 ==
    /\ argv = {"--help", "--verbose"}
    /\ cli_pc = "ended"
    /\ Printed("usage")

\* C20: when a required LLM value is missing, the construction of the driver
\* has failed with an error that lists exactly the missing names, the session
\* has reported it once and has ended without entering the loop.
Cex_C20 ==
    (variant = "main" /\ ~HelpRequested /\ Len(MissingNames) > 0
        /\ cli_pc # "start") =>
        /\ cli_pc = "ended"
        /\ driver = "none"
        /\ line = None
        /\ inflight = 0
        /\ Len(printed) = 2
        /\ printed[2] =
              [kind |-> "init_failed",
               text |-> "Failed to initialize agent: "
                            \o "Missing required configuration: "
                            \o join(MissingNames)]

\* C26: in simulated mode the package returned for an id that starts with
\* PKG in any letter case carries, as trackingId, the tracking_id argument
\* exactly as it was passed.
Cex_C26 ==
    (SimulatedReturned /\ StartsWithIgnoringCase(args.tracking_id, "PKG")) =>
        /\ IsPackages(result)
        /\ \A i \in 1..Len(result.packages) :
              result.packages[i].trackingId = args.tracking_id

\* C27: every package record the simulated lookup returns has an itemCount
\* equal to the number of entries of its items list.
Cex_C27 ==
    (SimulatedReturned /\ IsPackages(result)) =>
        \A i \in 1..Len(result.packages) :
            result.packages[i].itemCount = Len(result.packages[i].items)

\* C24: the two checks of Config agree: validate_required_config is False
\* exactly when get_missing_config lists a name, for values that are unset,
\* empty or set; so a configuration with a name reported as missing never
\* gets past the construction of the driver.
Cex_C24 ==
    /\ validate_required_config(config) <=> get_missing_config(config) = <<>>
    /\ (variant = "main" /\ get_missing_config(config) # <<>>) =>
            /\ driver = "none"
            /\ cli_pc \in {"start", "ended"}

IsPrefix(a, b) == Len(a) <= Len(b) /\ SubSeq(b, 1, Len(a)) = a

\* the driver exists and its latest chat call has returned
ChatCompleted ==
    /\ op = "chat"
    /\ driver = "idle"
    /\ answer.returned

\* C25 as stated, its state part: the history of a constructed driver is
\* never empty, starts with the system message, and after a completed chat
\* call its last two messages are that turn's user message and an assistant
\* message.
Cex_C25 ==
    /\ driver # "none" =>
          /\ Len(history) >= 1
          /\ history[1].role = "system"
    /\ ChatCompleted =>
          /\ Len(history) >= 3
          /\ history[Len(history) - 1] = [role |-> "user", content |-> asked]
          /\ history[Len(history)].role = "assistant"

\* C25: the history of a constructed driver is never empty and starts with
\* the system message added at construction; messages are only appended,
\* except by reset; after a completed chat call the history ends with that
\* turn's user message, then the messages the runtime recorded for its tool
\* calls, then one assistant message holding what chat returned.
Thm_C25 ==
    /\ [](driver # "none" =>
            /\ Len(history) >= 1
            /\ history[1] =
                  [role |-> "system",
                   content |-> "You are a helpful shipment tracking assistant."])
    /\ [](ChatCompleted =>
            LET n == Len(history) IN
            /\ n - 1 - toolmsgs >= 2
            /\ history[n - 1 - toolmsgs] = [role |-> "user", content |-> asked]
            /\ \A i \in (n - toolmsgs)..(n - 1) : history[i].role = "tool"
            /\ history[n] = [role |-> "assistant", content |-> answer.text])
    /\ [][(driver # "none" /\ history' # history) =>
              \/ IsPrefix(history, history')
              \/ op' = "reset_conversation" /\ history' = <<history[1]>>]_vars

Wit_C25 ==
    /\ ChatCompleted
    /\ ~raised.any
    /\ toolmsgs = 1
    /\ turns = 2
    /\ Len(history) >= 6

\* C21: in app.py a spinner runs exactly while a request to the driver is
\* pending: none runs at the prompt, and none runs once the loop has ended,
\* whichever way the turn ended.
Cex_C21 ==
    variant = "app" => (spinning <=> cli_pc = "chat")

\* C28: the mode is simulated exactly when USE_SIMULATED_API is unset or
\* equals "true" in some letter case; any other value selects live mode; only
\* live mode sends requests, and the mode never changes during a run.
Thm_C28 ==
    /\ [](use_simulation <=>
            (environ = "<None>" \/ EqualsIgnoringCase(environ, "true")))
    /\ [](request.sent => ~use_simulation)
    /\ [](SimulatedReturned => ~request.sent /\ http.kind = "none")
    /\ [][use_simulation' = use_simulation]_vars

Wit_C28 ==
    /\ environ = ""
    /\ LiveReturned
    /\ request.sent

VerboseRequested == argv \cap {"--verbose", "-v"} # {}

Filtered == filters # <<>>

\* C23: the filter is installed exactly in verbose mode; without it nothing
\* is logged; with it the start is logged before the function runs, the
\* function runs exactly once, then the completion with the result or the
\* failure with the error is logged; in both cases the kernel gets what the
\* function produced: the same result, or the same exception.
Thm_C23 ==
    /\ fpc # "start" => (Filtered <=> VerboseRequested)
    /\ ~Filtered => flog = <<>>
    /\ ninvoked <= 1
    /\ fpc = "before_next" =>
          /\ ninvoked = 0
          /\ Len(flog) = 1
    /\ (Filtered /\ fpc \in {"before_next", "in_function", "done"}) =>
          /\ flog[1].event = "FUNCTION INVOCATION STARTED"
          /\ flog[1].function = fcall.name
          /\ flog[1].arguments = fcall.arguments
    /\ fpc = "in_function" =>
          /\ ninvoked = 1
          /\ Filtered => Len(flog) = 1
    /\ fpc = "done" =>
          /\ ninvoked = 1
          /\ chain_out = tool_out
          /\ Filtered =>
                /\ Len(flog) = 2
                /\ IF tool_out.kind = "return"
                   THEN /\ flog[2].event = "FUNCTION INVOCATION COMPLETED"
                        /\ flog[2].result = tool_out.value
                   ELSE /\ flog[2].event = "FUNCTION INVOCATION FAILED"
                        /\ flog[2].level = "ERROR"
                        /\ flog[2].error = tool_out.msg

Wit_C23 ==
    /\ Filtered
    /\ fpc = "done"
    /\ fcall.name = "track_package"
    /\ tool_out.kind = "raise"
    /\ chain_out.kind = "raise"

\* C30: for one Spinner, over any sequence of start() and stop(), at most one
\* background thread is alive and spinning.
Cex_C30 == Cardinality(Alive) <= 1

\* C29: once stop() has returned, the thread it stopped writes nothing more
\* to the terminal.
Cex_C29 == ~late

\* C22: after stop() on a running Spinner the thread eventually leaves its
\* loop and terminates, and stop() always returns.
Cex_C22 ==
    /\ \A t \in Threads : (t \in stopping) ~> (tpc[t] = "dead")
    /\ (spc = "joining") ~> (spc = "idle")

=============================================================================
